---- MODULE Spec2Model ----
(***************************************************************************)
(* The OpenRTB 3.2.9 Native impression object (src/native.go) and its JSON *)
(* wire mapping.  The record carries no code of its own: its behaviour is  *)
(* what encoding/json derives from the field types and the `json:"..."`    *)
(* struct tags.  The model therefore has                                   *)
(*   - the Native value (one component per struct field, Go zero values),  *)
(*   - the wire payload (the ordered members of one JSON object),          *)
(*   - Marshal and Unmarshal as encoding/json performs them for exactly    *)
(*     these tags and types,                                               *)
(* and two flows: an application composes a Native, marshals it and        *)
(* unmarshals the result; a payload arrives, is unmarshalled and           *)
(* marshalled again.                                                       *)
(***************************************************************************)
EXTENDS Integers, Sequences, FiniteSets, TLC

VARIABLES native, wire, err, pc, orig, inbound, nset

vars == <<native, wire, err, pc, orig, inbound, nset>>

(* ----------------------------- bounds --------------------------------- *)

\* Fields an application assigns before marshalling.
MaxSet == 2

\* Members of an inbound JSON object.
MaxMembers == 2

\* Elements of a slice an application assigns.
MaxLen == 2

(* --------------------------- Go side values --------------------------- *)

\* A Go string is a byte sequence; it is modelled as a sequence of units:
\* letters, "xFF" (a byte that is not valid UTF-8) and "uFFFD" (the
\* replacement rune).
ToValidUTF8(s) == [i \in DOMAIN s |-> IF s[i] = "xFF" THEN "uFFFD" ELSE s[i]]

\* A Go slice: nil, or a (possibly empty) sequence of elements.
NilSlice == [isnil |-> TRUE, elems |-> <<>>]

MkSlice(e) == [isnil |-> FALSE, elems |-> e]

(* ------------------------------ wire values --------------------------- *)

\* One JSON value as text on the wire.  k: "null", "num" (integer literal n),
\* "frac" (a number with a fraction), "str" (units s), "arr" (elements a),
\* "obj" (an object, identified by n), "bad" (text that is not JSON) and
\* "empty" (zero bytes; only a json.RawMessage can hold it).  sp tells
\* whether the text of an array or object differs from the form Marshal
\* writes: it carries insignificant white space, or <, > or & unescaped.
WV(k, n, s, a, sp) == [k |-> k, n |-> n, s |-> s, a |-> a, sp |-> sp]

JNull == WV("null", 0, <<>>, <<>>, FALSE)

JNum(n) == WV("num", n, <<>>, <<>>, FALSE)

JFrac == WV("frac", 0, <<>>, <<>>, FALSE)

JStr(s) == WV("str", 0, s, <<>>, FALSE)

JArr(a, sp) == WV("arr", 0, <<>>, a, sp)

JObj(n, sp) == WV("obj", n, <<>>, <<>>, sp)

JBad == WV("bad", 0, <<>>, <<>>, FALSE)

JEmpty == WV("empty", 0, <<>>, <<>>, FALSE)

\* json.RawMessage is a []byte: nil, or some text.
NilRaw == [isnil |-> TRUE, text |-> JEmpty]

MkRaw(v) == [isnil |-> FALSE, text |-> v]

(* ------------------------- the struct: fields, tags ------------------- *)

\* The struct fields in declaration order.
FieldOrder ==
    << "Request", "Ver", "API", "BAttr", "Ext", "Layout", "AdUnit", "Context",
       "ContextSubType", "PlcmtType", "PlcmtCnt", "Seq", "Assets",
       "AURLSupport", "DURLSupport", "EventTrackers", "Privacy" >>

FieldNames == {FieldOrder[i] : i \in DOMAIN FieldOrder}

\* The tags as they would read had BAttr been tagged with the attribute name
\* its comment gives ("sequence") instead of "battr".
JSONKeyBAttrAsDocumented(f) ==
    CASE f = "Request" -> "request"
      [] f = "Ver" -> "ver"
      [] f = "API" -> "api"
      [] f = "BAttr" -> "sequence"
      [] f = "Ext" -> "ext"
      [] f = "Layout" -> "layout"
      [] f = "AdUnit" -> "adunit"
      [] f = "Context" -> "context"
      [] f = "ContextSubType" -> "contextsubtype"
      [] f = "PlcmtType" -> "plcmttype"
      [] f = "PlcmtCnt" -> "plcmtcnt"
      [] f = "Seq" -> "seq"
      [] f = "Assets" -> "assets"
      [] f = "AURLSupport" -> "aurlsupport"
      [] f = "DURLSupport" -> "durlsupport"
      [] f = "EventTrackers" -> "eventtrackers"
      [] f = "Privacy" -> "privacy"

\* The name part of each field's json tag.
JSONKey(f) ==
    CASE f = "Request" -> "request"
      [] f = "Ver" -> "ver"
      [] f = "API" -> "api"
      [] f = "BAttr" -> "battr"
      [] f = "Ext" -> "ext"
      [] f = "Layout" -> "layout"
      [] f = "AdUnit" -> "adunit"
      [] f = "Context" -> "context"
      [] f = "ContextSubType" -> "contextsubtype"
      [] f = "PlcmtType" -> "plcmttype"
      [] f = "PlcmtCnt" -> "plcmtcnt"
      [] f = "Seq" -> "seq"
      [] f = "Assets" -> "assets"
      [] f = "AURLSupport" -> "aurlsupport"
      [] f = "DURLSupport" -> "durlsupport"
      [] f = "EventTrackers" -> "eventtrackers"
      [] f = "Privacy" -> "privacy"

\* The tags with the omitempty option on no field, and on every field.
OmitEmptyNowhere(f) == FALSE

OmitEmptyEverywhere(f) == TRUE

\* Whether the field's json tag carries the omitempty option.
OmitEmpty(f) == f \notin {"Request", "Assets"}

\* The Go type of each field, by the way encoding/json treats it.
GoType(f) ==
    CASE f \in {"Request", "Ver"} -> "string"
      [] f \in {"API", "BAttr"} -> "enums"
      [] f = "Ext" -> "raw"
      [] f \in {"Layout", "AdUnit", "Context", "ContextSubType", "PlcmtType"} -> "enum"
      [] f \in {"PlcmtCnt", "Seq"} -> "int64"
      [] f = "Assets" -> "assets"
      [] f \in {"AURLSupport", "DURLSupport", "Privacy"} -> "int8"
      [] f = "EventTrackers" -> "trackers"

IsIntType(t) == t \in {"enum", "int64", "int8"}

IsSliceType(t) == t \in {"enums", "assets", "trackers"}

\* Native{}: every field at its Go zero value.
ZeroNative ==
    [ Request |-> <<>>, Ver |-> <<>>, API |-> NilSlice, BAttr |-> NilSlice,
      Ext |-> NilRaw, Layout |-> 0, AdUnit |-> 0, Context |-> 0,
      ContextSubType |-> 0, PlcmtType |-> 0, PlcmtCnt |-> 0, Seq |-> 0,
      Assets |-> NilSlice, AURLSupport |-> 0, DURLSupport |-> 0,
      EventTrackers |-> NilSlice, Privacy |-> 0 ]

(* ------------------------------ Marshal ------------------------------- *)

\* encoding/json's isEmptyValue for the field's type: a zero number, a
\* string, slice or byte slice of length 0.
IsEmptyValue(f, v) ==
    CASE GoType(f) = "string" -> Len(v) = 0
      [] IsIntType(GoType(f)) -> v = 0
      [] IsSliceType(GoType(f)) -> Len(v.elems) = 0
      [] GoType(f) = "raw" -> v.isnil \/ v.text.k = "empty"

\* The elements of the sibling package's records (request.Asset,
\* request.EventTracker) are identified by a number; each is one JSON object.
ElemToWire(t, e) == IF t = "enums" THEN JNum(e) ELSE JObj(e, FALSE)

\* Whether a RawMessage's text is valid JSON (Marshal checks it).
ValidText(v) ==
    /\ v.k \notin {"bad", "empty"}
    /\ \A i \in DOMAIN v.a : v.a[i].k \notin {"bad", "empty"}

\* Marshal writes a Marshaler's text compacted: insignificant white space is
\* removed and <, > and & are escaped, the value is otherwise the same.
Compact(v) ==
    [v EXCEPT !.sp = FALSE,
              !.a = [i \in DOMAIN v.a |-> [v.a[i] EXCEPT !.sp = FALSE]]]

\* The JSON text Marshal writes for a field value that is not omitted.
EncodeValue(f, v) ==
    CASE GoType(f) = "string" -> JStr(ToValidUTF8(v))
      [] IsIntType(GoType(f)) -> JNum(v)
      [] IsSliceType(GoType(f)) ->
            IF v.isnil THEN JNull
            ELSE JArr([i \in DOMAIN v.elems |-> ElemToWire(GoType(f), v.elems[i])], FALSE)
      [] GoType(f) = "raw" -> IF v.isnil THEN JNull ELSE Compact(v.text)

\* Marshal fails on a RawMessage that is emitted and does not hold valid JSON.
EncodeFails(f, v) ==
    /\ GoType(f) = "raw"
    /\ ~v.isnil
    /\ ~ValidText(v.text)

Emitted(n, f) == ~(OmitEmpty(f) /\ IsEmptyValue(f, n[f]))

RECURSIVE MarshalFrom(_, _)
\* The members written for fields i.. of the struct, in declaration order.
MarshalFrom(n, i) ==
    IF i > Len(FieldOrder) THEN <<>>
    ELSE LET f == FieldOrder[i]
         IN  IF Emitted(n, f)
             THEN <<[key |-> JSONKey(f), val |-> EncodeValue(f, n[f])]>>
                    \o MarshalFrom(n, i + 1)
             ELSE MarshalFrom(n, i + 1)

\* json.Marshal(n): the members of the object, or an error and no output.
Marshal(n) ==
    IF \E f \in FieldNames : Emitted(n, f) /\ EncodeFails(f, n[f])
    THEN [err |-> "marshal", members |-> <<>>]
    ELSE [err |-> "nil", members |-> MarshalFrom(n, 1)]

(* ----------------------------- Unmarshal ------------------------------ *)

\* Lower-casing of a member name, for the names the payloads here use.
\* encoding/json looks a member up by its exact name first and, failing
\* that, ignoring letter case.
FoldKey(k) ==
    CASE k = "REQUEST" -> "request"
      [] k = "Seq" -> "seq"
      [] k = "Assets" -> "assets"
      [] OTHER -> k

\* The struct field a member named k is stored into; "-" when there is none
\* and the member is skipped.
FieldFor(k) ==
    IF \E f \in FieldNames : JSONKey(f) = k
    THEN CHOOSE f \in FieldNames : JSONKey(f) = k
    ELSE IF \E f \in FieldNames : JSONKey(f) = FoldKey(k)
         THEN CHOOSE f \in FieldNames : JSONKey(f) = FoldKey(k)
         ELSE "-"

\* The values an int8 holds.
Int8Min == -128

Int8Max == 127

\* APIFramework, CreativeAttribute and the native.* enumerations are integer
\* types declared outside this file: an open integer domain, every integer
\* the payload carries is a value of the type.
EnumFits(n) == n \in Int

\* Whether the integer literal n fits the Go integer type t (an int64 holds
\* every integer of this model).
IntFits(t, n) ==
    CASE t = "int8" -> Int8Min <= n /\ n <= Int8Max
      [] t = "int64" -> n \in Int
      [] t = "enum" -> EnumFits(n)
      [] t = "enums" -> EnumFits(n)

\* The element the decoder finds at index i of the slice it decodes into:
\* the one an earlier member of the payload left there, or a zero element.
PrevElem(cur, i) == IF i \in DOMAIN cur.elems THEN cur.elems[i] ELSE 0

\* One array element stored into the slice element that holds old: the
\* element, and whether it was a type mismatch.  A null and a mismatch leave
\* the element as it is.
DecodeElem(t, old, v) ==
    IF v.k = "null" THEN [ok |-> TRUE, e |-> old]
    ELSE IF t = "enums"
         THEN IF v.k = "num" /\ IntFits(t, v.n)
              THEN [ok |-> TRUE, e |-> v.n]
              ELSE [ok |-> FALSE, e |-> old]
         ELSE IF v.k = "obj"
              THEN [ok |-> TRUE, e |-> v.n]
              ELSE [ok |-> FALSE, e |-> old]

\* What a field of an interface or pointer type would do with a null: keep
\* its value.
DecodeRawNullIsNoOp(cur, v) == IF v.k = "null" THEN cur ELSE MkRaw(v)

\* UnmarshalJSON of json.RawMessage keeps the value's text as it stands,
\* whatever the value is, the literal null included.
DecodeRaw(cur, v) == MkRaw(v)

\* A member's value stored into field f whose current value is cur: the new
\* value, and whether the value had the wrong JSON type for the field.  A
\* null leaves a string or a number as it is and makes a slice nil.
DecodeValue(f, cur, v) ==
    LET t == GoType(f)
    IN  CASE t = "raw" -> [ok |-> TRUE, v |-> DecodeRaw(cur, v)]
          [] t = "string" ->
                IF v.k = "str" THEN [ok |-> TRUE, v |-> ToValidUTF8(v.s)]
                ELSE IF v.k = "null" THEN [ok |-> TRUE, v |-> cur]
                ELSE [ok |-> FALSE, v |-> cur]
          [] IsIntType(t) ->
                IF v.k = "num" /\ IntFits(t, v.n) THEN [ok |-> TRUE, v |-> v.n]
                ELSE IF v.k = "null" THEN [ok |-> TRUE, v |-> cur]
                ELSE [ok |-> FALSE, v |-> cur]
          [] IsSliceType(t) ->
                IF v.k = "arr"
                THEN [ok |-> \A i \in DOMAIN v.a : DecodeElem(t, PrevElem(cur, i), v.a[i]).ok,
                      v |-> MkSlice([i \in DOMAIN v.a |->
                                        DecodeElem(t, PrevElem(cur, i), v.a[i]).e])]
                ELSE IF v.k = "null" THEN [ok |-> TRUE, v |-> NilSlice]
                ELSE [ok |-> FALSE, v |-> cur]

RECURSIVE UnmarshalFrom(_, _, _, _)
\* Members i.. stored one after the other into n; e is the first error so
\* far.  A type mismatch is recorded and decoding goes on.
UnmarshalFrom(ms, i, n, e) ==
    IF i > Len(ms) THEN [err |-> e, native |-> n]
    ELSE LET f == FieldFor(ms[i].key)
         IN  IF f = "-" THEN UnmarshalFrom(ms, i + 1, n, e)
             ELSE LET d == DecodeValue(f, n[f], ms[i].val)
                  IN  UnmarshalFrom(ms, i + 1, [n EXCEPT ![f] = d.v],
                                    IF d.ok \/ e # "nil" THEN e ELSE "type")

\* Whether the payload's text is well-formed JSON.
WellFormed(ms) == \A i \in DOMAIN ms : ValidText(ms[i].val)

\* What Unmarshal would do if the decoder were told to reject members that
\* no field takes (Decoder.DisallowUnknownFields).
UnmarshalDisallowUnknown(ms, n) ==
    IF ~WellFormed(ms) THEN [err |-> "syntax", native |-> n]
    ELSE IF \E i \in DOMAIN ms : FieldFor(ms[i].key) = "-"
         THEN [err |-> "unknown field", native |-> n]
         ELSE UnmarshalFrom(ms, 1, n, "nil")

\* What Unmarshal would do if it insisted on the fields whose tag has no
\* omitempty option.
UnmarshalRequireFields(ms, n) ==
    IF ~WellFormed(ms) THEN [err |-> "syntax", native |-> n]
    ELSE IF \E f \in FieldNames :
                ~OmitEmpty(f) /\ ~\E i \in DOMAIN ms : FieldFor(ms[i].key) = f
         THEN [err |-> "missing field", native |-> n]
         ELSE UnmarshalFrom(ms, 1, n, "nil")

\* json.Unmarshal(payload, &n): the text is validated first; a malformed
\* payload leaves n untouched.
Unmarshal(ms, n) ==
    IF ~WellFormed(ms) THEN [err |-> "syntax", native |-> n]
    ELSE UnmarshalFrom(ms, 1, n, "nil")

(* ------------------------- inputs of the model ------------------------ *)

\* Element values: a named constant of every enumeration and an asset or
\* tracker id (1), and an integer no enumeration names (999).
ElemVals == {1, 999}

SeqsUpTo(S, n) == UNION {[1..m -> S] : m \in 0..n}

\* The values an application assigns to field f.
SetVals(f) ==
    CASE GoType(f) = "string" -> {<<"a">>, <<"a", "xFF">>}
      [] GoType(f) \in {"enum", "int64"} -> {1, 999}
      [] GoType(f) = "int8" -> {1, Int8Max}
      [] IsSliceType(GoType(f)) -> {MkSlice(e) : e \in SeqsUpTo(ElemVals, MaxLen)}
      [] GoType(f) = "raw" ->
            {MkRaw(JObj(7, FALSE)), MkRaw(JObj(7, TRUE)), MkRaw(JNull),
             MkRaw(JEmpty), MkRaw(JBad)}

\* The member names inbound payloads use: the 17 names of the OpenRTB
\* attributes, three spellings that differ from one of them in letter case
\* only, and a name that resembles none.
WireKeys ==
    { "request", "ver", "api", "battr", "ext", "layout", "adunit", "context",
      "contextsubtype", "plcmttype", "plcmtcnt", "seq", "assets",
      "aurlsupport", "durlsupport", "eventtrackers", "privacy",
      "REQUEST", "Seq", "Assets", "foo" }

\* The values inbound payloads carry under member name k.
WireVals(k) ==
    CASE k = "request" -> {JStr(<<"a">>), JNull, JNum(1)}
      [] k = "REQUEST" -> {JStr(<<"b">>)}
      [] k = "ver" -> {JStr(<<"v">>)}
      [] k = "api" ->
            {JArr(<<>>, FALSE), JArr(<<JNum(999), JNum(1)>>, FALSE),
             JArr(<<JNum(0), JNum(0)>>, FALSE), JNull}
      [] k = "battr" -> {JArr(<<JNum(999)>>, FALSE), JArr(<<JStr(<<"a">>)>>, FALSE)}
      [] k = "eventtrackers" ->
            {JArr(<<JObj(1, FALSE)>>, FALSE), JArr(<<>>, FALSE), JArr(<<JNull>>, FALSE)}
      [] k = "ext" ->
            {JObj(7, FALSE), JObj(7, TRUE), JArr(<<JNum(1)>>, TRUE), JNull,
             JStr(<<"a">>), JBad}
      [] k \in {"layout", "adunit", "context", "contextsubtype", "plcmttype"} ->
            {JNum(0), JNum(999)}
      [] k = "plcmtcnt" -> {JNum(0), JNum(1), JFrac}
      [] k = "seq" -> {JNum(0), JNum(1)}
      [] k = "Seq" -> {JNum(0)}
      [] k = "assets" ->
            {JArr(<<JObj(1, FALSE)>>, FALSE), JArr(<<>>, FALSE), JNull,
             JArr(<<JObj(999, TRUE), JObj(999, FALSE)>>, TRUE)}
      [] k = "Assets" -> {JArr(<<JObj(1, FALSE)>>, FALSE)}
      [] k = "aurlsupport" -> {JNum(0), JNum(1), JNum(Int8Max + 1)}
      [] k = "durlsupport" -> {JNum(0), JNum(1)}
      [] k = "privacy" -> {JNum(0), JNum(1), JStr(<<"a">>)}
      [] k = "foo" -> {JNum(1), JObj(7, FALSE)}

(* ----------------------------- the flows ------------------------------ *)

Init ==
    /\ native = ZeroNative
    /\ wire = <<>>
    /\ err = "nil"
    /\ pc = "start"
    /\ orig = ZeroNative
    /\ inbound = <<>>
    /\ nset = 0

\* An application assigns one field of the Native it is composing.
Compose(f, v) ==
    /\ pc \in {"start", "compose"}
    /\ nset < MaxSet
    /\ native' = [native EXCEPT ![f] = v]
    /\ nset' = nset + 1
    /\ pc' = "compose"
    /\ UNCHANGED <<wire, err, orig, inbound>>

\* json.Marshal of the composed Native.
Encode ==
    /\ pc \in {"start", "compose"}
    /\ LET r == Marshal(native)
       IN  /\ wire' = r.members
           /\ err' = r.err
    /\ orig' = native
    /\ pc' = "marshalled"
    /\ UNCHANGED <<native, inbound, nset>>

\* json.Unmarshal of what Encode wrote, into a fresh Native.
DecodeBack ==
    /\ pc = "marshalled"
    /\ err = "nil"
    /\ LET r == Unmarshal(wire, ZeroNative)
       IN  /\ native' = r.native
           /\ err' = r.err
    /\ pc' = "roundtrip"
    /\ UNCHANGED <<wire, orig, inbound, nset>>

\* One more member of the payload that arrives.
Receive(k, v) ==
    /\ pc \in {"start", "inbound"}
    /\ Len(wire) < MaxMembers
    /\ wire' = Append(wire, [key |-> k, val |-> v])
    /\ pc' = "inbound"
    /\ UNCHANGED <<native, err, orig, inbound, nset>>

\* json.Unmarshal of the payload into a fresh Native.
Decode ==
    /\ pc \in {"start", "inbound"}
    /\ LET r == Unmarshal(wire, ZeroNative)
       IN  /\ native' = r.native
           /\ err' = r.err
    /\ inbound' = wire
    /\ pc' = "decoded"
    /\ UNCHANGED <<wire, orig, nset>>

\* json.Marshal of the Native a successful Decode produced.
Reencode ==
    /\ pc = "decoded"
    /\ err = "nil"
    /\ LET r == Marshal(native)
       IN  /\ wire' = r.members
           /\ err' = r.err
    /\ pc' = "reencoded"
    /\ UNCHANGED <<native, orig, inbound, nset>>

Next ==
    \/ \E f \in FieldNames : \E v \in SetVals(f) : Compose(f, v)
    \/ Encode
    \/ DecodeBack
    \/ \E k \in WireKeys : \E v \in WireVals(k) : Receive(k, v)
    \/ Decode
    \/ Reencode

Spec == Init /\ [][Next]_vars

(* ======================== properties checked ========================== *)

\* The member names of a payload, and the members under one name.
KeySeq(ms) == [i \in DOMAIN ms |-> ms[i].key]

KeySet(ms) == {ms[i].key : i \in DOMAIN ms}

CountKey(ms, k) == Cardinality({i \in DOMAIN ms : ms[i].key = k})

\* The 17 member names of the wire format, in the order of the fields they
\* belong to, and the field that belongs to a name.
KnownKeys ==
    << "request", "ver", "api", "battr", "ext", "layout", "adunit", "context",
       "contextsubtype", "plcmttype", "plcmtcnt", "seq", "assets",
       "aurlsupport", "durlsupport", "eventtrackers", "privacy" >>

KnownKeySet == {KnownKeys[i] : i \in DOMAIN KnownKeys}

FieldOfKey(k) == FieldOrder[CHOOSE i \in DOMAIN KnownKeys : KnownKeys[i] = k]

\* The members of ms named k, letter case ignored, and the last of them.
Under(ms, k) == {i \in DOMAIN ms : FoldKey(ms[i].key) = k}

LastUnder(ms, k) == CHOOSE i \in Under(ms, k) : \A j \in Under(ms, k) : j <= i

\* The fields the OpenRTB text calls required, and the others.
RequiredFields == {"Request", "Assets"}

OptionalFields == FieldNames \ RequiredFields

\* A field that holds something: a non-zero number, a string, sequence or
\* extension text of at least one unit.
Holds(n, f) ==
    CASE f \in {"Request", "Ver"} -> n[f] # <<>>
      [] f \in {"API", "BAttr", "Assets", "EventTrackers"} -> n[f].elems # <<>>
      [] f = "Ext" -> ~n[f].isnil /\ n[f].text.k # "empty"
      [] OTHER -> n[f] # 0

\* A Go string that is valid UTF-8.
ValidUTF8(str) == \A i \in DOMAIN str : str[i] # "xFF"

\* An extension that is nil, or valid JSON text in the form Marshal writes.
CompactExt(x) ==
    \/ x.isnil
    \/ /\ x.text.k \notin {"bad", "empty"}
       /\ ~x.text.sp
       /\ \A i \in DOMAIN x.text.a : x.text.a[i].k \notin {"bad", "empty"} /\ ~x.text.a[i].sp

(* ---- C1 ---- *)

\* C1, as stated: every Native instance can be encoded, and decoding the
\* encoded form gives back every field that was set (differed from the zero
\* value of a fresh Native) exactly as it was.
C1_RoundTripEveryInstance ==
    /\ pc = "marshalled" => err = "nil"
    /\ pc = "roundtrip" =>
          /\ err = "nil"
          /\ \A f \in FieldNames : orig[f] # ZeroNative[f] => native[f] = orig[f]

\* C1, amended: for a Native whose strings are valid UTF-8 and whose Ext is
\* nil or valid JSON text in the form Marshal writes, Marshal succeeds, Unmarshal of its output
\* succeeds, and the result equals the original in Request, in Assets and in
\* every optional field that holds something; every other field comes back
\* as the zero value.
C1_RoundTrip ==
    LET fit == ValidUTF8(orig.Request) /\ ValidUTF8(orig.Ver) /\ CompactExt(orig.Ext)
    IN  /\ (pc = "marshalled" /\ fit) => err = "nil"
        /\ (pc = "roundtrip" /\ fit) =>
              /\ err = "nil"
              /\ \A f \in FieldNames :
                    IF f \in RequiredFields \/ Holds(orig, f)
                    THEN native[f] = orig[f]
                    ELSE native[f] = ZeroNative[f]

\* A Native with only the required fields set, and one with an optional
\* field set too, have both made the round trip.
C1_Witness ==
    /\ pc = "roundtrip"
    /\ orig.Request = <<"a">>
    /\ orig.Assets = MkSlice(<<1, 999>>)
    /\ native = orig

C1_WitnessOptional ==
    /\ pc = "roundtrip"
    /\ orig.Ext = MkRaw(JObj(7, FALSE))
    /\ orig.API = MkSlice(<<999>>)
    /\ native = orig

(* ---- C2 ---- *)

\* C2: a Native whose optional fields are all unset encodes to exactly the
\* two members request and assets, in that order, whatever the two required
\* fields hold.
C2_Omission ==
    (pc = "marshalled" /\ \A f \in OptionalFields : orig[f] = ZeroNative[f]) =>
        /\ err = "nil"
        /\ KeySeq(wire) = <<"request", "assets">>

C2_Witness ==
    /\ pc = "marshalled"
    /\ \A f \in OptionalFields : orig[f] = ZeroNative[f]
    /\ orig.Request = <<"a">>
    /\ orig.Assets = MkSlice(<<1>>)
    /\ KeySeq(wire) = <<"request", "assets">>

(* ---- C10 ---- *)

\* C10: Marshal then Unmarshal keeps the elements of api, battr, assets and
\* eventtrackers in their order, duplicates included; an optional sequence
\* with zero elements is left out and comes back nil; assets is written
\* under its key exactly once whatever it holds, nil and empty included.
C10_Sequences ==
    /\ (pc = "roundtrip" /\ err = "nil") =>
          /\ \A f \in {"API", "BAttr", "Assets", "EventTrackers"} :
                native[f].elems = orig[f].elems
          /\ \A f \in {"API", "BAttr", "EventTrackers"} :
                orig[f].elems = <<>> => native[f] = NilSlice
          /\ native.Assets = orig.Assets
    /\ (pc = "marshalled" /\ err = "nil") =>
          /\ \A f \in {"API", "BAttr", "EventTrackers"} :
                (CountKey(wire, JSONKey(f)) = 0) <=> (orig[f].elems = <<>>)
          /\ CountKey(wire, "assets") = 1

\* Order and duplicates went through, an empty optional sequence came back
\* nil, and an empty assets stayed an empty sequence.
C10_Witness ==
    /\ pc = "roundtrip"
    /\ orig.API = MkSlice(<<999, 1>>)
    /\ orig.EventTrackers = MkSlice(<<1, 1>>)
    /\ native.API = orig.API
    /\ native.EventTrackers = orig.EventTrackers

C10_WitnessEmpty ==
    /\ pc = "roundtrip"
    /\ orig.BAttr = MkSlice(<<>>)
    /\ native.BAttr = NilSlice
    /\ orig.Assets = MkSlice(<<>>)
    /\ native.Assets = MkSlice(<<>>)

(* ---- C5 ---- *)

C5_WitnessDecode ==
    /\ pc = "decoded"
    /\ KeySeq(inbound) = <<"battr">>
    /\ native.BAttr = MkSlice(<<999>>)

(* ---- C3 ---- *)

\* The payload ms with the members request and assets that it lacks put in
\* front.
C3_Completed(ms) ==
    (IF "request" \in KeySet(ms) THEN <<>>
     ELSE <<[key |-> "request", val |-> JStr(<<"a">>)]>>)
    \o (IF "assets" \in KeySet(ms) THEN <<>>
        ELSE <<[key |-> "assets", val |-> JArr(<<JObj(1, FALSE)>>, FALSE)]>>)
    \o ms

\* C3, as stated: decoding a well-formed payload without a member request or
\* without a member assets ends in an error.
C3_MissingRequiredFails ==
    (/\ pc = "decoded"
     /\ WellFormed(inbound)
     /\ {"request", "assets"} \ KeySet(inbound) # {}) => err # "nil"

\* C3, amended: a missing request or assets member is not detected.  Decoding
\* a well-formed payload that lacks one of them ends exactly as decoding the
\* same payload with the lacking members supplied (no error unless a member
\* that is present has the wrong type), and a required field that no member
\* is stored into keeps its zero value: Request the empty string, Assets nil.
C3_MissingRequiredAccepted ==
    (/\ pc = "decoded"
     /\ WellFormed(inbound)
     /\ {"request", "assets"} \ KeySet(inbound) # {}) =>
        /\ err = Unmarshal(C3_Completed(inbound), ZeroNative).err
        /\ Under(inbound, "request") = {} => native.Request = <<>>
        /\ Under(inbound, "assets") = {} => native.Assets = NilSlice
        /\ (\A i \in DOMAIN inbound :
                LET f == FieldFor(inbound[i].key)
                IN  f = "-" \/ DecodeValue(f, ZeroNative[f], inbound[i].val).ok) => err = "nil"

\* A payload with assets and without request was decoded without an error.
C3_Witness ==
    /\ pc = "decoded"
    /\ KeySeq(inbound) = <<"assets", "ver">>
    /\ err = "nil"
    /\ native.Request = <<>>
    /\ native.Assets # NilSlice

(* ---- C4 ---- *)

\* Integers that none of the enumerations names.
C4_Unnamed == {0, 999}

C4_ScalarKeys == {"layout", "adunit", "context", "contextsubtype", "plcmttype"}

C4_ArrayKeys == {"api", "battr"}

\* An array of integers with at least one that no enumeration names.
C4_UnnamedArray(v) ==
    /\ v.k = "arr"
    /\ \A i \in DOMAIN v.a : v.a[i].k = "num"
    /\ \E i \in DOMAIN v.a : v.a[i].n \in C4_Unnamed

\* The last member under name k carries v: after a decode the field holds
\* exactly v (for an array: its integers in order), after the re-encode a
\* member under k carries the same text again.
C4_Preserved(k, v, scalar) ==
    LET f == FieldOfKey(k)
    IN  /\ pc = "decoded" =>
              native[f] = IF scalar THEN v.n ELSE MkSlice([i \in DOMAIN v.a |-> v.a[i].n])
        /\ pc = "reencoded" =>
              \E j \in DOMAIN wire : wire[j].key = k /\ wire[j].val = v

\* Every member of the payload is an enumerated field carrying integers.
C4_OnlyEnums(ms) ==
    \A i \in DOMAIN ms :
        \/ ms[i].key \in C4_ScalarKeys /\ ms[i].val.k = "num"
        \/ ms[i].key \in C4_ArrayKeys /\ ms[i].val.k = "arr"
              /\ \A j \in DOMAIN ms[i].val.a : ms[i].val.a[j].k = "num"

\* C4 for the scalar enumerations whose integer is one of vs, and for the
\* enumeration arrays.
C4_Tolerance(vs) ==
    /\ (pc = "decoded" /\ C4_OnlyEnums(inbound)) => err = "nil"
    /\ (pc \in {"decoded", "reencoded"} /\ WellFormed(inbound)) =>
          /\ \A k \in C4_ScalarKeys :
                Under(inbound, k) # {} =>
                    LET v == inbound[LastUnder(inbound, k)].val
                    IN  (v.k = "num" /\ v.n \in vs) => C4_Preserved(k, v, TRUE)
          /\ \A k \in C4_ArrayKeys :
                Under(inbound, k) # {} =>
                    LET v == inbound[LastUnder(inbound, k)].val
                    IN  C4_UnnamedArray(v) => C4_Preserved(k, v, FALSE)

\* C4, as stated: every integer outside the named constants is accepted,
\* stored and written again under the same name, in api and battr elements
\* and in layout, adunit, context, contextsubtype and plcmttype.
C4_OpenEnumAnyInteger == C4_Tolerance(C4_Unnamed)

\* C4, amended: the same for every integer outside the named constants in
\* api and battr elements, and for every such integer other than 0 in
\* layout, adunit, context, contextsubtype and plcmttype; a 0 in one of these
\* five is accepted and stored, and the re-encode leaves the member out.
C4_OpenEnumNonZero ==
    /\ C4_Tolerance(C4_Unnamed \ {0})
    /\ (pc = "reencoded" /\ WellFormed(inbound)) =>
          \A k \in C4_ScalarKeys : native[FieldOfKey(k)] = 0 => CountKey(wire, k) = 0

C4_Witness ==
    /\ pc = "reencoded"
    /\ inbound = <<[key |-> "plcmttype", val |-> JNum(999)],
                   [key |-> "api", val |-> JArr(<<JNum(999), JNum(1)>>, FALSE)]>>
    /\ native.PlcmtType = 999
    /\ KeySeq(wire) = <<"request", "api", "plcmttype", "assets">>
    /\ wire[2] = inbound[2]
    /\ wire[3] = inbound[1]

C4_WitnessZeroElements ==
    /\ pc = "reencoded"
    /\ inbound = <<[key |-> "api", val |-> JArr(<<JNum(0), JNum(0)>>, FALSE)],
                   [key |-> "layout", val |-> JNum(0)]>>
    /\ KeySeq(wire) = <<"request", "api", "assets">>

(* ---- C6 ---- *)

\* The payload has the two members request and assets and no other.
C6_OnlyRequired(ms) == Len(ms) = 2 /\ KeySet(ms) = {"request", "assets"}

C6_Value(ms, k) == ms[CHOOSE i \in DOMAIN ms : ms[i].key = k].val

\* C6: decoding a payload with the two members request (a string) and assets
\* (an array of objects) succeeds, Request and Assets hold the payload's
\* values, every optional field is left at its zero value (PlcmtCnt is 0,
\* not the default 1 of the OpenRTB text), and the re-encode writes the
\* members request and assets and no other.
C6_AbsentStaysAbsent ==
    /\ (pc = "decoded" /\ C6_OnlyRequired(inbound)) =>
          LET r == C6_Value(inbound, "request")
              a == C6_Value(inbound, "assets")
          IN  /\ err = "nil" => \A f \in OptionalFields : native[f] = ZeroNative[f]
              /\ (r.k = "str" /\ a.k = "arr" /\ \A i \in DOMAIN a.a : a.a[i].k = "obj") =>
                    /\ err = "nil"
                    /\ native.Request = r.s
                    /\ native.Assets = MkSlice([i \in DOMAIN a.a |-> a.a[i].n])
                    /\ native.PlcmtCnt = 0
    /\ (pc = "reencoded" /\ C6_OnlyRequired(inbound)) =>
          /\ err = "nil"
          /\ KeySeq(wire) = <<"request", "assets">>

C6_Witness ==
    /\ pc = "reencoded"
    /\ inbound = <<[key |-> "request", val |-> JStr(<<"a">>)],
                   [key |-> "assets", val |-> JArr(<<JObj(1, FALSE)>>, FALSE)]>>
    /\ native.Request = <<"a">>
    /\ Len(native.Assets.elems) = 1
    /\ wire = inbound

(* ---- C7 ---- *)

\* The payload without the members whose name is none of the 17, and without
\* those whose name is none of the 17 even when letter case is ignored.
C7_Known(ms) == SelectSeq(ms, LAMBDA m : m.key \in KnownKeySet)

C7_KnownFold(ms) == SelectSeq(ms, LAMBDA m : FoldKey(m.key) \in KnownKeySet)

\* C7, as stated: members under names outside the 17 never make the decode
\* fail and never change the result: error and instance are those of the
\* payload with these members removed.
C7_UnknownKeysDropped ==
    (pc = "decoded" /\ WellFormed(inbound)) =>
        /\ err = Unmarshal(C7_Known(inbound), ZeroNative).err
        /\ native = Unmarshal(C7_Known(inbound), ZeroNative).native

\* C7, amended: the same for the members whose name differs from each of the
\* 17 in more than letter case.  A member whose name equals one of the 17 up
\* to letter case (REQUEST, Seq, Assets) is stored into that field.
C7_UnknownKeysDroppedFold ==
    (pc = "decoded" /\ WellFormed(inbound)) =>
        /\ err = Unmarshal(C7_KnownFold(inbound), ZeroNative).err
        /\ native = Unmarshal(C7_KnownFold(inbound), ZeroNative).native
        /\ KeySet(inbound) \subseteq {"foo"} => err = "nil" /\ native = ZeroNative

C7_Witness ==
    /\ pc = "decoded"
    /\ KeySeq(inbound) = <<"foo", "request">>
    /\ inbound[1].val = JObj(7, FALSE)
    /\ err = "nil"
    /\ native.Request = <<"a">>

C7_WitnessCase ==
    /\ pc = "decoded"
    /\ KeySeq(inbound) = <<"request", "REQUEST">>
    /\ native.Request = <<"b">>

(* ---- C8 ---- *)

\* The JSON value of a text: the text without its layout.
C8_Value(v) ==
    [k |-> v.k, n |-> v.n, s |-> v.s,
     a |-> [i \in DOMAIN v.a |-> [k |-> v.a[i].k, n |-> v.a[i].n, s |-> v.a[i].s]]]

C8_WithoutExt(ms) == SelectSeq(ms, LAMBDA m : m.key # "ext")

\* C8: whatever well-formed value the payload carries under ext (object,
\* array, string, null), the decode stores its text as it stands, ends with
\* the error, and the other fields, of the payload without ext, and the
\* re-encode succeeds and writes one member ext with the same JSON value.
C8_ExtPassThrough ==
    /\ (pc = "decoded" /\ WellFormed(inbound) /\ "ext" \in KeySet(inbound)) =>
          LET x == inbound[LastUnder(inbound, "ext")].val
              r == Unmarshal(C8_WithoutExt(inbound), ZeroNative)
          IN  /\ native.Ext = MkRaw(x)
              /\ err = r.err
              /\ [native EXCEPT !.Ext = NilRaw] = r.native
    /\ (pc = "reencoded" /\ "ext" \in KeySet(inbound)) =>
          /\ err = "nil"
          /\ CountKey(wire, "ext") = 1
          /\ \A j \in DOMAIN wire :
                wire[j].key = "ext" =>
                    C8_Value(wire[j].val) = C8_Value(inbound[LastUnder(inbound, "ext")].val)
          /\ \A j \in DOMAIN wire :
                wire[j].key # "ext" =>
                    \E i \in DOMAIN Marshal([native EXCEPT !.Ext = NilRaw]).members :
                        Marshal([native EXCEPT !.Ext = NilRaw]).members[i] = wire[j]

C8_Witness ==
    /\ pc = "reencoded"
    /\ inbound = <<[key |-> "ext", val |-> JArr(<<JNum(1)>>, TRUE)],
                   [key |-> "seq", val |-> JNum(1)]>>
    /\ native.Ext = MkRaw(JArr(<<JNum(1)>>, TRUE))
    /\ KeySeq(wire) = <<"request", "ext", "seq", "assets">>
    /\ wire[2].val = JArr(<<JNum(1)>>, FALSE)

C8_WitnessNull ==
    /\ pc = "reencoded"
    /\ inbound = <<[key |-> "ext", val |-> JNull]>>
    /\ wire[2] = inbound[1]

(* ---- C9 ---- *)

C9_Keys ==
    {"layout", "adunit", "context", "contextsubtype", "plcmttype", "plcmtcnt",
     "seq", "aurlsupport", "durlsupport", "privacy"}

\* The payload says 0, and nothing else, for the field of name k.
C9_ExplicitZero(ms, k) ==
    /\ Under(ms, k) # {}
    /\ \A i \in Under(ms, k) : ms[i].val = JNum(0)

C9_Without(ms, k) == SelectSeq(ms, LAMBDA m : FoldKey(m.key) # k)

\* C9: for each of the ten integer fields, a value of 0 is encoded without
\* the member; a payload that says 0 for the field decodes to the same error
\* and the same instance as the payload without these members; and the
\* re-encode of such a payload has no member of that name.
C9_ZeroIsAbsent ==
    \A k \in C9_Keys :
        /\ (pc \in {"marshalled", "reencoded"} /\ err = "nil") =>
              (CountKey(wire, k) = 0 <=> native[FieldOfKey(k)] = 0)
        /\ (pc = "decoded" /\ WellFormed(inbound) /\ C9_ExplicitZero(inbound, k)) =>
              /\ err = Unmarshal(C9_Without(inbound, k), ZeroNative).err
              /\ native = Unmarshal(C9_Without(inbound, k), ZeroNative).native
        /\ (pc = "reencoded" /\ C9_ExplicitZero(inbound, k)) => CountKey(wire, k) = 0

C9_Witness ==
    /\ pc = "reencoded"
    /\ inbound = <<[key |-> "plcmtcnt", val |-> JNum(0)],
                   [key |-> "privacy", val |-> JNum(1)]>>
    /\ KeySeq(wire) = <<"request", "assets", "privacy">>

C9_WitnessEncode ==
    /\ pc = "marshalled"
    /\ orig.AURLSupport = 1
    /\ orig.PlcmtCnt = 0
    /\ KeySeq(wire) = <<"request", "assets", "aurlsupport">>

====
